---- MODULE Spec2Model ----
(***************************************************************************)
(* ForkAwareDict (src/fork_aware_dict.py): the builder `create`, which     *)
(* streams entries into four scratch files and concatenates them into the  *)
(* index file, and the store (`__init__` and `get`), which parses the      *)
(* file's offset tables into plain_index and answers point queries.        *)
(*                                                                         *)
(* Bytes are integers 0..255, byte strings are sequences of bytes, text    *)
(* strings are sequences of code points.                                   *)
(***************************************************************************)
EXTENDS Integers, Sequences, FiniteSets, TLC

\* ------------------------------------------------------------------ bounds

\* The longest input stream handed to create.
MaxEntries == 2

\* An unpacked integer of Huge or more is kept as Huge: Python's integers do
\* not overflow, and every such value lies past the end of any file of the
\* model, so slicing treats all of them alike.
Huge == 16777216

\* --------------------------------------------------------------- constants

\* struct.calcsize("Q"): the width of every integer of the file.
WordSize == 8

\* ForkAwareDict.BUF_SIZE: the chunk size of the final copy.
BUF_SIZE == 4096

\* Offsets written over a table entry of a finished file.
TamperOffsets == {0, 1, 5, 1000}

\* ------------------------------------------------------------------ inputs

\* Keys "", "a" and "é" (0, 1 and 2 bytes of UTF-8).
Keys == {<<>>, <<97>>, <<233>>}

\* Values "b" and "éb".
Values == {<<98>>, <<233, 98>>}

\* What the iterable, key_function and encoder do on an entry.
EntryKinds == {"ok", "iter_raises", "key_raises", "key_nonstr", "enc_raises", "enc_nonbytes"}

Entries ==
    [kind : {"ok"}, key : Keys, value : Values]
        \cup [kind : EntryKinds \ {"ok"}, key : {<<97>>}, value : {<<98>>}]

RECURSIVE SeqsUpTo(_, _)
SeqsUpTo(S, n) ==
    IF n = 0 THEN {<<>>}
    ELSE LET shorter == SeqsUpTo(S, n - 1)
         IN  shorter \cup {Append(s, x) : s \in {t \in shorter : Len(t) = n - 1}, x \in S}

\* Python values returned by get: None or a str.
PyNone == [t |-> "None", s |-> <<>>]

PyStr(s) == [t |-> "str", s |-> s]

Defaults == {PyNone, PyStr(<<100>>)}

\* ----------------------------------------------------------------- helpers

Min(a, b) == IF a < b THEN a ELSE b

\* b[lo:hi] of a bytes object or an mmap, with non-negative indices.
Slice(b, lo, hi) ==
    LET l == Min(lo, Len(b))
        h == Min(hi, Len(b))
    IN  IF l >= h THEN <<>> ELSE SubSeq(b, l + 1, h)

RECURSIVE PackBytes(_, _)
PackBytes(v, n) ==
    IF n = 0 THEN <<>> ELSE <<v % 256>> \o PackBytes(v \div 256, n - 1)

\* struct.pack("Q", v) on a little-endian host.
PackQ(v) == PackBytes(v, WordSize)

\* struct.unpack("Q", b)[0]: struct.error unless b has exactly 8 bytes.
UnpackQ(b) ==
    IF Len(b) # WordSize THEN [ok |-> FALSE, val |-> 0]
    ELSE IF \E i \in 4..WordSize : b[i] # 0 THEN [ok |-> TRUE, val |-> Huge]
    ELSE [ok |-> TRUE, val |-> b[1] + 256 * b[2] + 65536 * b[3]]

\* One code point as UTF-8.
EncodeCodePoint(c) ==
    IF c < 128 THEN <<c>>
    ELSE IF c < 2048 THEN <<192 + (c \div 64), 128 + (c % 64)>>
    ELSE IF c < 65536 THEN
        <<224 + (c \div 4096), 128 + ((c \div 64) % 64), 128 + (c % 64)>>
    ELSE <<240 + (c \div 262144), 128 + ((c \div 4096) % 64),
           128 + ((c \div 64) % 64), 128 + (c % 64)>>

RECURSIVE EncodeUtf8(_)
\* str.encode("utf-8").
EncodeUtf8(s) ==
    IF s = <<>> THEN <<>> ELSE EncodeCodePoint(Head(s)) \o EncodeUtf8(Tail(s))

IsCont(b, i) == i <= Len(b) /\ b[i] >= 128 /\ b[i] <= 191

RECURSIVE DecodeFrom(_, _, _)
DecodeFrom(b, i, acc) ==
    IF i > Len(b) THEN [ok |-> TRUE, val |-> acc]
    ELSE LET b0 == b[i]
             bad == [ok |-> FALSE, val |-> <<>>]
         IN  IF b0 < 128 THEN DecodeFrom(b, i + 1, Append(acc, b0))
             ELSE IF b0 >= 194 /\ b0 <= 223 THEN
                 IF IsCont(b, i + 1)
                 THEN DecodeFrom(b, i + 2, Append(acc, (b0 - 192) * 64 + (b[i + 1] - 128)))
                 ELSE bad
             ELSE IF b0 >= 224 /\ b0 <= 239 THEN
                 IF /\ IsCont(b, i + 1)
                    /\ IsCont(b, i + 2)
                    /\ (b0 = 224 => b[i + 1] >= 160)
                    /\ (b0 = 237 => b[i + 1] <= 159)
                 THEN DecodeFrom(b, i + 3,
                          Append(acc, (b0 - 224) * 4096 + (b[i + 1] - 128) * 64 + (b[i + 2] - 128)))
                 ELSE bad
             ELSE IF b0 >= 240 /\ b0 <= 244 THEN
                 IF /\ IsCont(b, i + 1)
                    /\ IsCont(b, i + 2)
                    /\ IsCont(b, i + 3)
                    /\ (b0 = 240 => b[i + 1] >= 144)
                    /\ (b0 = 244 => b[i + 1] <= 143)
                 THEN DecodeFrom(b, i + 4,
                          Append(acc, (b0 - 240) * 262144 + (b[i + 1] - 128) * 4096
                                          + (b[i + 2] - 128) * 64 + (b[i + 3] - 128)))
                 ELSE bad
             ELSE bad

\* bytes.decode("utf-8"): ok is FALSE for UnicodeDecodeError (a ValueError).
DecodeUtf8(b) == DecodeFrom(b, 1, <<>>)

RECURSIVE SumBytes(_)
SumBytes(b) == IF b = <<>> THEN 0 ELSE Head(b) + SumBytes(Tail(b))

\* The trailing check value of a compressed stream.
Checksum(b) == (1 + SumBytes(b)) % 251

\* zlib.compress: a two-byte header, the stream, a check value.  The length of
\* the result differs from the length of the input.
Compress(b) == <<120, 156>> \o b \o <<Checksum(b)>>

\* zlib.decompress: ok is FALSE for zlib.error (not a ValueError).
Decompress(c) ==
    IF /\ Len(c) >= 3
       /\ c[1] = 120
       /\ c[2] = 156
       /\ c[Len(c)] = Checksum(SubSeq(c, 3, Len(c) - 1))
    THEN [ok |-> TRUE, val |-> SubSeq(c, 3, Len(c) - 1)]
    ELSE [ok |-> FALSE, val |-> <<>>]

\* ------------------------------------------------------------------- state

VARIABLES
    iterable,        \* create's input stream
    pos,             \* entries the loop of create has taken from the iterable
    create_pc,       \* "loop", "returned" or "failed"
    create_exc,      \* the exception create exited with, or "none"
    num_records,
    offset,
    keys_offset,
    keys_fp,         \* contents of the four scratch files
    keys_offset_fp,
    data_fp,
    data_offset_fp,
    open_handles,    \* the file handles create holds open
    final_file,      \* the file create returns: [exists, data]
    tamper,          \* what was done to the file after create returned
    store,           \* in_memory -> the ForkAwareDict opened on the file
    lastGet          \* the last get call and its outcome

builderVars ==
    <<iterable, pos, create_pc, create_exc, num_records, offset, keys_offset,
      keys_fp, keys_offset_fp, data_fp, data_offset_fp, open_handles>>

vars == <<builderVars, final_file, tamper, store, lastGet>>

ScratchHandles == {"keys_fp", "keys_offset_fp", "data_fp", "data_offset_fp"}

NoFile == [exists |-> FALSE, data |-> <<>>]

\* A builder that opens the final file together with the scratch files.
FinalFileEager == [exists |-> TRUE, data |-> <<>>]

\* The final file while the entries are consumed: it is not among the files
\* create opens up front.
FinalFileAtStart == NoFile

NoTamper == [kind |-> "none", at |-> 0, table |-> "none", value |-> 0]

Unopened ==
    [state |-> "unopened", exc |-> "none", idx |-> <<>>, num_records |-> 0,
     keys_offsets |-> <<>>, keys_start |-> 0, data_keys_offsets_start |-> 0,
     data_start_offset |-> 0, plain_index |-> <<>>]

NoGet ==
    [called |-> FALSE, in_memory |-> TRUE, key |-> <<>>, default |-> PyNone,
     out |-> [hit |-> FALSE, decompressed |-> FALSE, decoded |-> FALSE,
              kind |-> "none", val |-> PyNone, exc |-> "none"]]

Init ==
    /\ iterable \in SeqsUpTo(Entries, MaxEntries)
    /\ pos = 0
    /\ create_pc = "loop"
    /\ create_exc = "none"
    /\ num_records = 0
    /\ offset = 0
    /\ keys_offset = 0
    /\ keys_fp = <<>>
    /\ keys_offset_fp = <<>>
    /\ data_fp = <<>>
    /\ data_offset_fp = <<>>
    /\ open_handles = ScratchHandles
    /\ final_file = FinalFileAtStart
    /\ tamper = NoTamper
    /\ store = [m \in BOOLEAN |-> Unopened]
    /\ lastGet = NoGet

\* ----------------------------------------------------------------- builder

\* key_function(entry): it raises, or returns a str or something else.
key_function(entry) ==
    CASE entry.kind = "key_raises" -> [tag |-> "raise", val |-> <<>>]
      [] entry.kind = "key_nonstr" -> [tag |-> "nonstr", val |-> <<>>]
      [] OTHER -> [tag |-> "str", val |-> entry.key]

\* encoder(entry): it raises, or returns bytes or something else.
encoder(entry) ==
    CASE entry.kind = "enc_raises" -> [tag |-> "raise", val |-> <<>>]
      [] entry.kind = "enc_nonbytes" -> [tag |-> "nonbytes", val |-> <<>>]
      [] OTHER -> [tag |-> "bytes", val |-> EncodeUtf8(entry.value)]

\* The exception one pass of the loop body ends with, or "none".
BodyException(entry) ==
    LET k == key_function(entry)
        e == encoder(entry)
    IN  IF k.tag = "raise" \/ e.tag = "raise" THEN "Error"
        ELSE IF k.tag # "str" THEN "Error"
        ELSE IF e.tag # "bytes" THEN "TypeError"
        ELSE "none"

\* One pass of `for entry in iterable`.
CreateEntry ==
    /\ create_pc = "loop"
    /\ pos < Len(iterable)
    /\ LET entry == iterable[pos + 1]
           raised == entry.kind = "iter_raises"
           exc == IF raised THEN "IterError" ELSE BodyException(entry)
           binary_data == Compress(encoder(entry).val)
           binary_key == EncodeUtf8(key_function(entry).val)
       IN  /\ pos' = pos + 1
           /\ num_records' = IF raised THEN num_records ELSE num_records + 1
           /\ data_offset_fp' =
                  IF raised THEN data_offset_fp ELSE data_offset_fp \o PackQ(offset)
           /\ keys_offset_fp' =
                  IF raised THEN keys_offset_fp ELSE keys_offset_fp \o PackQ(keys_offset)
           /\ create_exc' = exc
           /\ create_pc' = IF exc = "none" THEN "loop" ELSE "failed"
           /\ data_fp' = IF exc = "none" THEN data_fp \o binary_data ELSE data_fp
           /\ keys_fp' = IF exc = "none" THEN keys_fp \o binary_key ELSE keys_fp
           /\ offset' = IF exc = "none" THEN offset + Len(binary_data) ELSE offset
           /\ keys_offset' = IF exc = "none" THEN keys_offset + Len(binary_key) ELSE keys_offset
    /\ UNCHANGED <<iterable, open_handles, final_file, tamper, store, lastGet>>

RECURSIVE CopyChunks(_)
\* buf = f.read(BUF_SIZE); while buf: final_fp.write(buf); buf = f.read(BUF_SIZE)
CopyChunks(src) ==
    IF Slice(src, 0, BUF_SIZE) = <<>> THEN <<>>
    ELSE Slice(src, 0, BUF_SIZE) \o CopyChunks(Slice(src, BUF_SIZE, Len(src)))

\* A builder that copies the key blob ahead of the key offsets.
FinalDataKeysFirst(n, ko, k, do, d) ==
    PackQ(n) \o CopyChunks(k) \o CopyChunks(ko) \o CopyChunks(do) \o CopyChunks(d)

\* The final file: the header, then the four scratch files in order.
FinalData(n, ko, k, do, d) ==
    PackQ(n) \o CopyChunks(ko) \o CopyChunks(k) \o CopyChunks(do) \o CopyChunks(d)

\* The iterable is exhausted: the closing offsets, the close calls, the final
\* file and the return.
CreateFinish ==
    /\ create_pc = "loop"
    /\ pos = Len(iterable)
    /\ data_offset_fp' = data_offset_fp \o PackQ(offset)
    /\ keys_offset_fp' = keys_offset_fp \o PackQ(keys_offset)
    /\ open_handles' = (open_handles \ ScratchHandles) \ {"final_fp"}
    /\ final_file' =
           [exists |-> TRUE,
            data |-> FinalData(num_records, keys_offset_fp', keys_fp, data_offset_fp', data_fp)]
    /\ create_pc' = "returned"
    /\ UNCHANGED <<iterable, pos, create_exc, num_records, offset, keys_offset,
                   keys_fp, data_fp, tamper, store, lastGet>>

\* ------------------------------------------------------------------- store

\* f.read(): the whole file as bytes.
ReadView(data) == [ok |-> TRUE, bytes |-> data]

\* A mapping that leaves out the last byte of the file.
MmapViewShort(data) ==
    IF Len(data) = 0 THEN [ok |-> FALSE, bytes |-> <<>>]
    ELSE [ok |-> TRUE, bytes |-> SubSeq(data, 1, Len(data) - 1)]

\* mmap.mmap(f.fileno(), 0): the whole file; ValueError on an empty file.
MmapView(data) ==
    IF Len(data) = 0 THEN [ok |-> FALSE, bytes |-> <<>>] ELSE [ok |-> TRUE, bytes |-> data]

RECURSIVE ReadKeysOffsets(_, _, _, _)
\* for i in range(num_records + 1): keys_offsets.append(unpack(...))
ReadKeysOffsets(idx, n, i, acc) ==
    IF i > n THEN [ok |-> TRUE, val |-> acc]
    ELSE LET w == UnpackQ(Slice(idx, (i + 1) * WordSize, (i + 2) * WordSize))
         IN  IF ~w.ok THEN [ok |-> FALSE, val |-> acc]
             ELSE ReadKeysOffsets(idx, n, i + 1, Append(acc, w.val))

\* The start of the key blob as 8 + (record_count + 2) * 8.
KeysStartAsStated(n) == WordSize + (n + 2) * WordSize

\* keys_start = 8 * (num_records + 2)
KeysStart(n) == WordSize * (n + 2)

DataKeysOffsetsStart(keys_start, keys_offsets) == keys_start + keys_offsets[Len(keys_offsets)]

DataStartOffset(dkos, n) == dkos + (n + 1) * WordSize

\* An index that keeps the first record of a key.
PutIndexKeepFirst(index, key, range) == index @@ (key :> range)

\* self.plain_index[key] = range
PutIndex(index, key, range) == (key :> range) @@ index

RECURSIVE IndexRecords(_, _, _, _, _, _, _, _)
\* for i in range(num_records): the key, its start and end, the plain_index entry.
IndexRecords(idx, n, ko, ks, dkos, dso, i, acc) ==
    IF i >= n THEN [exc |-> "none", index |-> acc]
    ELSE LET key == DecodeUtf8(Slice(idx, ks + ko[i + 1], ks + ko[i + 2]))
             start == UnpackQ(Slice(idx, dkos + i * WordSize, dkos + (i + 1) * WordSize))
             end == UnpackQ(Slice(idx, dkos + (i + 1) * WordSize, dkos + (i + 2) * WordSize))
         IN  IF ~key.ok THEN [exc |-> "Error", index |-> acc]
             ELSE IF ~start.ok \/ ~end.ok THEN [exc |-> "struct.error", index |-> acc]
             ELSE IndexRecords(idx, n, ko, ks, dkos, dso, i + 1,
                               PutIndex(acc, key.val, <<dso + start.val, dso + end.val>>))

Raised(exc) == [Unopened EXCEPT !.state = "raised", !.exc = exc]

\* ForkAwareDict(filename=..., in_memory=...): the store, or the exception.
\* A ValueError becomes ForkAwareDict.Error; struct.error is not a ValueError.
OpenStore(data, in_memory) ==
    LET view == IF in_memory THEN ReadView(data) ELSE MmapView(data)
        idx == view.bytes
        header == UnpackQ(Slice(idx, 0, WordSize))
        n == header.val
        ko == ReadKeysOffsets(idx, n, 0, <<>>)
        ks == KeysStart(n)
        dkos == DataKeysOffsetsStart(ks, ko.val)
        dso == DataStartOffset(dkos, n)
        recs == IndexRecords(idx, n, ko.val, ks, dkos, dso, 0, <<>>)
    IN  IF ~view.ok THEN Raised("Error")
        ELSE IF ~header.ok THEN Raised("struct.error")
        ELSE IF ~ko.ok THEN Raised("struct.error")
        ELSE IF recs.exc # "none" THEN Raised(recs.exc)
        ELSE [state |-> "ok", exc |-> "none", idx |-> idx, num_records |-> n,
              keys_offsets |-> ko.val, keys_start |-> ks, data_keys_offsets_start |-> dkos,
              data_start_offset |-> dso, plain_index |-> recs.index]

\* decoder: the default, bytes.decode("utf-8").
decoder(b) == DecodeUtf8(b)

\* get(key, default): what it returns or raises.
Get(st, key, default) ==
    LET hit == key \in DOMAIN st.plain_index
        offsets == st.plain_index[key]
        binary_data == Slice(st.idx, offsets[1], offsets[2])
        raw == Decompress(binary_data)
        decoded == decoder(raw.val)
        out(kind, val, exc) ==
            [hit |-> hit, decompressed |-> hit /\ raw.ok,
             decoded |-> hit /\ raw.ok /\ decoded.ok,
             kind |-> kind, val |-> val, exc |-> exc]
    IN  IF ~hit THEN out("return", default, "none")
        ELSE IF ~raw.ok THEN out("raise", PyNone, "zlib.error")
        ELSE IF ~decoded.ok THEN out("return", default, "none")
        ELSE out("return", PyStr(decoded.val), "none")

\* ForkAwareDict(filename=final file, in_memory=in_memory)
Open(in_memory) ==
    /\ final_file.exists
    /\ store[in_memory].state = "unopened"
    /\ store' = [store EXCEPT ![in_memory] = OpenStore(final_file.data, in_memory)]
    /\ UNCHANGED <<builderVars, final_file, tamper, lastGet>>

QueryKeys(st) == Keys \cup DOMAIN st.plain_index

\* index.get(key, default) on an opened store.
GetCall(in_memory, key, default) ==
    /\ store[in_memory].state = "ok"
    /\ key \in QueryKeys(store[in_memory])
    /\ lastGet' = [called |-> TRUE, in_memory |-> in_memory, key |-> key,
                   default |-> default, out |-> Get(store[in_memory], key, default)]
    /\ UNCHANGED <<builderVars, final_file, tamper, store>>

\* ------------------------------------------------------- damage to the file

Untouched == tamper.kind = "none" /\ \A m \in BOOLEAN : store[m].state = "unopened"

\* The file is cut to its first p bytes.
Truncate(p) ==
    /\ final_file.exists
    /\ Untouched
    /\ p < Len(final_file.data)
    /\ final_file' = [final_file EXCEPT !.data = SubSeq(final_file.data, 1, p)]
    /\ tamper' = [kind |-> "truncate", at |-> p, table |-> "none", value |-> 0]
    /\ UNCHANGED <<builderVars, store, lastGet>>

\* Where entry i of an offset table of the built file lies.
TableEntryAt(table, i) ==
    IF table = "keys" THEN WordSize * (i + 1)
    ELSE WordSize * (num_records + 2) + keys_offset + WordSize * i

\* Entry i of an offset table is overwritten with v.
Overwrite(table, i, v) ==
    /\ final_file.exists
    /\ Untouched
    /\ LET at == TableEntryAt(table, i)
           data == final_file.data
       IN  /\ SubSeq(data, at + 1, at + WordSize) # PackQ(v)
           /\ final_file' =
                  [final_file EXCEPT
                      !.data = SubSeq(data, 1, at) \o PackQ(v)
                                   \o SubSeq(data, at + WordSize + 1, Len(data))]
    /\ tamper' = [kind |-> "overwrite", at |-> i, table |-> table, value |-> v]
    /\ UNCHANGED <<builderVars, store, lastGet>>

\* ---------------------------------------------------------- specifications

Next ==
    \/ CreateEntry
    \/ CreateFinish
    \/ \E m \in BOOLEAN : Open(m)
    \/ \E m \in BOOLEAN :
           \E k \in QueryKeys(store[m]), d \in Defaults : GetCall(m, k, d)

\* The builder, the store opened on the file as built, and its queries.
Spec == Init /\ [][Next]_vars

NextTamper ==
    \/ Next
    \/ \E p \in 0..Len(final_file.data) : Truncate(p)
    \/ \E t \in {"keys", "data"}, i \in 0..num_records, v \in TamperOffsets : Overwrite(t, i, v)

\* The same, with the file cut or an offset overwritten before it is opened.
SpecTamper == Init /\ [][NextTamper]_vars
\* ------------------------------------------------------------------ claims

\* The input read independently of the builder's state.
InputKeys == {iterable[i].key : i \in 1..Len(iterable)}

LastIndexOf(k) ==
    CHOOSE i \in 1..Len(iterable) :
        /\ iterable[i].key = k
        /\ \A j \in (i + 1)..Len(iterable) : iterable[j].key # k

KeyBytesOf(i) == EncodeUtf8(iterable[i].key)

PayloadOf(i) == Compress(EncodeUtf8(iterable[i].value))

RECURSIVE KeyBytesBefore(_)
KeyBytesBefore(i) == IF i = 0 THEN 0 ELSE KeyBytesBefore(i - 1) + Len(KeyBytesOf(i))

RECURSIVE PayloadBytesBefore(_)
PayloadBytesBefore(i) == IF i = 0 THEN 0 ELSE PayloadBytesBefore(i - 1) + Len(PayloadOf(i))

RECURSIVE KeyBlobUpTo(_)
KeyBlobUpTo(i) == IF i = 0 THEN <<>> ELSE KeyBlobUpTo(i - 1) \o KeyBytesOf(i)

RECURSIVE ValueBlobUpTo(_)
ValueBlobUpTo(i) == IF i = 0 THEN <<>> ELSE ValueBlobUpTo(i - 1) \o PayloadOf(i)

\* The integer stored at byte `at` of a file, and the regions of section 3.
WordAt(data, at) == UnpackQ(Slice(data, at, at + WordSize)).val

HasWordAt(data, at) == UnpackQ(Slice(data, at, at + WordSize)).ok

FileCount(data) == WordAt(data, 0)

FileKeyOffset(data, i) == WordAt(data, WordSize + WordSize * i)

FileKeyBlob(data) == WordSize + (FileCount(data) + 1) * WordSize

FileValueTable(data) == FileKeyBlob(data) + FileKeyOffset(data, FileCount(data))

FileValueOffset(data, i) == WordAt(data, FileValueTable(data) + WordSize * i)

FileValueBlob(data) == FileValueTable(data) + (FileCount(data) + 1) * WordSize

FileKey(data, i) ==
    DecodeUtf8(Slice(data, FileKeyBlob(data) + FileKeyOffset(data, i),
                     FileKeyBlob(data) + FileKeyOffset(data, i + 1))).val

Opened(m) == store[m].state # "unopened"

\* C1: on the file as built, get(k, default) returns the value of the last
\* pair whose key is k, and default for a key that is not in the input.
C1_RoundTrip ==
    (lastGet.called /\ tamper.kind = "none") =>
        /\ lastGet.out.kind = "return"
        /\ lastGet.out.val =
               IF lastGet.key \in InputKeys
               THEN PyStr(iterable[LastIndexOf(lastGet.key)].value)
               ELSE lastGet.default

\* A get of a key that the input gives twice, with different values, has
\* returned the second value.
C1_Witness ==
    /\ lastGet.called
    /\ tamper.kind = "none"
    /\ Len(iterable) = 2
    /\ iterable[1].key = lastGet.key
    /\ iterable[2].key = lastGet.key
    /\ iterable[1].value # iterable[2].value
    /\ lastGet.out.val = PyStr(iterable[2].value)

\* C2: the file create returns is the header n, the n+1 prefix sums of the raw
\* key lengths, the key blob, the n+1 prefix sums of the compressed payload
\* lengths and the value blob, and nothing else.
C2_ByteLayout ==
    (create_pc = "returned" /\ tamper.kind = "none") =>
        LET n == Len(iterable)
            data == final_file.data
            tk == KeyBytesBefore(n)
            tc == PayloadBytesBefore(n)
            kblob == WordSize + (n + 1) * WordSize
            vtable == kblob + tk
            vblob == vtable + (n + 1) * WordSize
        IN  /\ final_file.exists
            /\ Len(data) = WordSize + (n + 1) * WordSize + tk + (n + 1) * WordSize + tc
            /\ HasWordAt(data, 0) /\ WordAt(data, 0) = n
            /\ \A i \in 0..n :
                   /\ WordAt(data, WordSize + WordSize * i) = KeyBytesBefore(i)
                   /\ WordAt(data, vtable + WordSize * i) = PayloadBytesBefore(i)
            /\ \A i \in 0..(n - 1) :
                   WordAt(data, WordSize + WordSize * i)
                       <= WordAt(data, WordSize + WordSize * (i + 1))
            /\ WordAt(data, WordSize) = 0
            /\ WordAt(data, WordSize + WordSize * n) = tk
            /\ Slice(data, kblob, vtable) = KeyBlobUpTo(n)
            /\ Slice(data, vblob, Len(data)) = ValueBlobUpTo(n)

\* create has returned a file of two records whose keys differ in length.
C2_Witness ==
    /\ create_pc = "returned"
    /\ tamper.kind = "none"
    /\ Len(iterable) = 2
    /\ Len(KeyBytesOf(1)) = 2
    /\ Len(KeyBytesOf(2)) = 1
    /\ Len(PayloadOf(1)) # Len(PayloadOf(2))

\* Whether cutting the built file to p > 0 bytes cuts its header or a table.
CutsHeaderOrTable(p) ==
    \/ p > 0 /\ p < WordSize + (num_records + 1) * WordSize
    \/ /\ p >= WordSize + (num_records + 1) * WordSize + keys_offset
       /\ p < WordSize + (num_records + 1) * WordSize + keys_offset
                  + (num_records + 1) * WordSize

\* C3: opening a file cut inside its header or an offset table raises
\* ForkAwareDict.Error, for either access mode.
C3_TruncationRejected ==
    \A m \in BOOLEAN :
        (tamper.kind = "truncate" /\ CutsHeaderOrTable(tamper.at) /\ Opened(m)) =>
            (store[m].state = "raised" /\ store[m].exc = "Error")

\* C4: a hit whose bytes fail to decompress or to decode returns default.
C4_DecodeFailureGivesDefault ==
    (lastGet.called /\ lastGet.out.hit /\ ~lastGet.out.decoded) =>
        (lastGet.out.kind = "return" /\ lastGet.out.val = lastGet.default)

\* C5: a key function or encoder that raises or returns the wrong type makes
\* create fail with ForkAwareDict.Error at that entry.
C5_SameErrorKind ==
    (create_pc = "failed"
         /\ iterable[pos].kind \in {"key_raises", "key_nonstr", "enc_raises", "enc_nonbytes"}) =>
        create_exc = "Error"

\* C6: the final file exists only once every entry has been processed and
\* both closing offsets are written; a failed create leaves none.
C6_NoFinalFileOnFailure ==
    /\ create_pc # "returned" => ~final_file.exists
    /\ final_file.exists =>
           /\ create_exc = "none"
           /\ pos = Len(iterable)
           /\ num_records = Len(iterable)
           /\ Len(keys_offset_fp) = (Len(iterable) + 1) * WordSize
           /\ Len(data_offset_fp) = (Len(iterable) + 1) * WordSize

\* create has failed at its second entry, the first one written.
C6_Witness ==
    /\ create_pc = "failed"
    /\ pos = 2
    /\ Len(data_fp) > 0

\* C7: when create has exited, by return or by a failure raised while it
\* processed an entry, it holds no open handle.
C7_HandlesClosedOnExit ==
    (\/ create_pc = "returned"
     \/ create_pc = "failed" /\ create_exc \in {"Error", "TypeError"}) =>
        open_handles = {}

\* Whether the file is long enough for the tables its header declares.
HoldsTables(data) ==
    /\ HasWordAt(data, 0)
    /\ Len(data) >= FileValueBlob(data)

\* Whether an offset table decreases or the value table points past the file.
Inconsistent(data) ==
    \/ \E i \in 0..(FileCount(data) - 1) :
           \/ FileKeyOffset(data, i) > FileKeyOffset(data, i + 1)
           \/ FileValueOffset(data, i) > FileValueOffset(data, i + 1)
    \/ FileValueBlob(data) + FileValueOffset(data, FileCount(data)) > Len(data)

\* C8: opening a file that holds its tables but whose tables are inconsistent
\* raises ForkAwareDict.Error.
C8_InconsistentRejected ==
    \A m \in BOOLEAN :
        (/\ tamper.kind = "overwrite"
         /\ HoldsTables(final_file.data)
         /\ Inconsistent(final_file.data)
         /\ Opened(m)) =>
            (store[m].state = "raised" /\ store[m].exc = "Error")

\* C9: the stores opened on one file in the two access modes have the same
\* plain_index and answer every get alike.
C9_SameAcrossModes ==
    (store[TRUE].state = "ok" /\ store[FALSE].state = "ok") =>
        /\ store[TRUE].plain_index = store[FALSE].plain_index
        /\ \A k \in QueryKeys(store[TRUE]) \cup QueryKeys(store[FALSE]), d \in Defaults :
               Get(store[TRUE], k, d) = Get(store[FALSE], k, d)
        /\ (lastGet.called /\ lastGet.key \in QueryKeys(store[~lastGet.in_memory])) =>
               lastGet.out = Get(store[~lastGet.in_memory], lastGet.key, lastGet.default)

\* Both stores are open on a file cut inside its value blob, and a get of a
\* key whose bytes no longer decompress was made.
C9_Witness ==
    /\ store[TRUE].state = "ok"
    /\ store[FALSE].state = "ok"
    /\ tamper.kind = "truncate"
    /\ lastGet.called
    /\ lastGet.out.hit
    /\ ~lastGet.out.decompressed
    /\ \E k \in DOMAIN store[FALSE].plain_index :
           Get(store[FALSE], k, PyNone).kind = "return" /\ Get(store[FALSE], k, PyNone).hit

\* C10 as stated: keys_region_start = 8 + (record_count + 2) * 8, and every
\* record i maps its key to its own range.
C10_LayoutAsStated ==
    \A m \in BOOLEAN :
        store[m].state = "ok" =>
            LET st == store[m]
                n == st.num_records
            IN  /\ st.keys_start = WordSize + (n + 2) * WordSize
                /\ st.data_keys_offsets_start = st.keys_start + st.keys_offsets[n + 1]
                /\ st.data_start_offset = st.data_keys_offsets_start + (n + 1) * WordSize
                /\ \A i \in 0..(n - 1) :
                       /\ FileKey(st.idx, i) \in DOMAIN st.plain_index
                       /\ st.plain_index[FileKey(st.idx, i)] =
                              <<st.data_start_offset + FileValueOffset(st.idx, i),
                                st.data_start_offset + FileValueOffset(st.idx, i + 1)>>

\* C10, amended: keys_region_start = 8 + (record_count + 1) * 8, the other two
\* starts as stated, and every record's key maps to the range of the last
\* record with that key.
C10_Layout ==
    \A m \in BOOLEAN :
        store[m].state = "ok" =>
            LET st == store[m]
                n == st.num_records
            IN  /\ n = FileCount(st.idx)
                /\ Len(st.keys_offsets) = n + 1
                /\ \A i \in 0..n : st.keys_offsets[i + 1] = FileKeyOffset(st.idx, i)
                /\ st.keys_start = WordSize + (n + 1) * WordSize
                /\ st.data_keys_offsets_start = st.keys_start + st.keys_offsets[n + 1]
                /\ st.data_start_offset = st.data_keys_offsets_start + (n + 1) * WordSize
                /\ DOMAIN st.plain_index = {FileKey(st.idx, i) : i \in 0..(n - 1)}
                /\ \A i \in 0..(n - 1) :
                       (\A j \in (i + 1)..(n - 1) : FileKey(st.idx, j) # FileKey(st.idx, i)) =>
                           st.plain_index[FileKey(st.idx, i)] =
                               <<st.data_start_offset + FileValueOffset(st.idx, i),
                                 st.data_start_offset + FileValueOffset(st.idx, i + 1)>>
                /\ tamper.kind = "none" =>
                       \A i \in 0..(n - 1) : FileKey(st.idx, i) = iterable[i + 1].key

\* A store is open on a file of two records with distinct non-empty keys.
C10_Witness ==
    \E m \in BOOLEAN :
        /\ store[m].state = "ok"
        /\ tamper.kind = "none"
        /\ store[m].num_records = 2
        /\ Cardinality(DOMAIN store[m].plain_index) = 2
        /\ <<>> \notin DOMAIN store[m].plain_index
====
